---- MODULE Spec2Model ----
(***************************************************************************)
(* Model of the time-series ingestion pipeline of EnergyForecasting:       *)
(* APITimeSeriesInput.from_api_data (src/api/data/schemas/y_series_api.py) *)
(* and the pydantic field validators it triggers; the domain entity        *)
(* TimeSeriesData (src/data/schemas/timeseries.py) with its to_csv; and    *)
(* the upload routes (src/api/data/routers).                               *)
(*                                                                         *)
(* Time is counted in whole hours.  Hour 0 is 2024-01-01 00:00 (a Monday); *)
(* every timestamp of the model lies in the first days of January 2024, so *)
(* no daylight-saving transition and no month boundary is crossed.  An     *)
(* instant is the number of hours since 2024-01-01 00:00 UTC.              *)
(***************************************************************************)
EXTENDS Integers, Sequences, FiniteSets, TLC

VARIABLES
    raw,      \* the tuple given to from_api_data: csv text, granularity, timezone
    pc,       \* "call" | "construct" | "returned" | "raised"
    df,       \* the frame built by from_api_data before cls(...) is called
    errors,   \* the errors carried by the exception raised, in report order
    ran,      \* the steps executed so far, in execution order
    out,      \* the APITimeSeriesInput returned
    again,    \* the text to_csv renders for `out`, and its re-ingestion
    args,     \* the arguments of a call TimeSeriesData(...)
    ts,       \* the TimeSeriesData instance built from `args`
    handlers, \* the requests being served by the upload routes
    fs,       \* the files on disk: path -> content
    env       \* the environment of the process (os.environ)

entityVars == <<args, ts>>
routeVars == <<handlers, fs, env>>
vars == <<raw, pc, df, errors, ran, out, again, entityVars, routeVars>>

None == [none |-> TRUE]

-----------------------------------------------------------------------------
(* Configuration: src/config.py                                            *)

ALLOWED_TIMEZONES == {"UTC", "Europe/Paris"}

GRANULARITY_FREQ_MAP ==
    [g \in {"hourly", "daily", "monthly"} |->
        CASE g = "hourly" -> "H"
          [] g = "daily" -> "D"
          [] g = "monthly" -> "M"]

\* UTC offset, in hours, of a zone in January (zoneinfo data used by
\* tz_localize / tz_convert).
UtcOffset(tz) ==
    CASE tz = "UTC" -> 0
      [] tz = "Europe/Paris" -> 1
      [] tz = "Asia/Tokyo" -> 9

-----------------------------------------------------------------------------
(* Bounded inputs                                                          *)

MaxLen == 4

\* wall-clock hours that may appear in a timestamp cell: four consecutive
\* hours and three consecutive midnights
Ticks == {0, 1, 2, 3, 24, 48}

Timezones == {"UTC", "Europe/Paris", "Asia/Tokyo"}
Granularities == {"hourly", "daily", "monthly", "weekly"}

\* A timestamp cell: kind "naive" (no offset in the text), "aware" (text
\* ends in an offset of `off` hours), "bad" (text is no timestamp) or "int"
\* (digits only, read by read_csv as an integer).
TsCell(kind, w) == [kind |-> kind, w |-> w, off |-> 0]
\* A timestamp cell whose text shows the wall-clock hour w followed by the
\* offset `off` ("+01:00"): the instant w - off.
AwareCell(w, off) == [kind |-> "aware", w |-> w, off |-> off]
\* A value cell: kind "num" (a number v), "null" (NaN or empty) or "text".
ValCell(kind, v) == [kind |-> kind, v |-> v]

IndexSeqs == UNION {[1..n -> Ticks] : n \in 0..MaxLen}
IncreasingSeqs ==
    {s \in IndexSeqs : \A i \in 1..(Len(s) - 1) : s[i] < s[i + 1]}

\* Row variants: what is wrong with the rows, and in which row.
ValueFaults == {"zero", "neg", "null", "text"}
TsFaults == {"badts"}

FaultyVal(fault, i) ==
    CASE fault = "zero" -> ValCell("num", 0)
      [] fault = "neg" -> ValCell("num", 0 - 5)
      [] fault = "null" -> ValCell("null", 0)
      [] fault = "text" -> ValCell("text", 0)
      [] OTHER -> ValCell("num", i)

\* rows with wall-clock hours s; tskind is the kind of every timestamp
\* cell; row `at` carries `fault` (at = 0: no faulty row)
MkRows(s, tskind, fault, at) ==
    [i \in 1..Len(s) |->
        [ts |-> IF i = at /\ fault \in TsFaults
                THEN TsCell("bad", 0)
                ELSE TsCell(tskind, s[i]),
         val |-> IF i = at THEN FaultyVal(fault, i) ELSE ValCell("num", i)]]

GoodHeader == <<"timestamp", "value">>

Headers ==
    { <<"timestamp", "value">>, <<"value", "timestamp">>,
      <<"timestamp", "load">>, <<"timestamp", "Value">>,
      <<"timestamp", "VALUE">>, <<"timestamp", " value">>,
      <<"timestamp">>, <<"value">>,
      <<"timestamp", "value", "extra">>, <<"time", "value", "extra">>,
      <<"Timestamp", "value">> }

MkCsv(readable, header, rows) ==
    [readable |-> readable, header |-> header, rows |-> rows]

\* text that read_csv cannot tokenize (empty text, ragged rows)
UnreadableCsv == MkCsv(FALSE, <<>>, <<>>)

\* every row order over Ticks, with valid values
CsvAnyOrder ==
    {MkCsv(TRUE, GoodHeader, MkRows(s, "naive", "none", 0)) : s \in IndexSeqs}

\* increasing timestamps, every fault in every row, every timestamp kind
CsvFaults ==
    {MkCsv(TRUE, GoodHeader, MkRows(s, "naive", f, at)) :
        s \in IncreasingSeqs, f \in ValueFaults \cup TsFaults, at \in 1..MaxLen}
    \cup
    {MkCsv(TRUE, GoodHeader, MkRows(s, k, "none", 0)) :
        s \in IncreasingSeqs, k \in {"aware", "int"}}

\* every header, over a valid daily series, one with an unparseable
\* timestamp, and no data row at all
CsvHeaders ==
    {MkCsv(TRUE, h, r) :
        h \in Headers,
        r \in { MkRows(<<0, 24, 48>>, "naive", "none", 0),
                MkRows(<<0, 24, 48>>, "naive", "badts", 2),
                <<>> }}

\* the textual forms a timestamp may take: no offset, "+00:00", "+01:00"
TsForms == {"naive", "aware0", "aware1"}

FormCell(form, w) ==
    CASE form = "naive" -> TsCell("naive", w)
      [] form = "aware0" -> AwareCell(w, 0)
      [] form = "aware1" -> AwareCell(w, 1)

\* three hourly or daily rows, every row in every textual form
CsvForms ==
    {MkCsv(TRUE, GoodHeader,
           [i \in 1..3 |-> [ts |-> FormCell(f[i], s[i]), val |-> ValCell("num", i)]]) :
        s \in {<<1, 2, 3>>, <<0, 24, 48>>}, f \in [1..3 -> TsForms]}

CsvTexts ==
    {UnreadableCsv} \cup CsvAnyOrder \cup CsvFaults \cup CsvHeaders \cup CsvForms

RawData ==
    {[csv_text |-> c, granularity |-> g, timezone |-> tz] :
        c \in CsvTexts, g \in Granularities, tz \in Timezones}

\* names given to a series
EntityNames == {"", " ", " a", "abc_series"}

\* a name holding a NUL character (the Python string "a\x00"); it is no
\* whitespace, so str.strip leaves it alone
NulName == "a\\x00"

-----------------------------------------------------------------------------
(* Errors                                                                  *)

Err(kind, info) == [kind |-> kind, info |-> info]
Kinds(es) == [i \in 1..Len(es) |-> es[i].kind]
HasErr(es, kind) == \E i \in 1..Len(es) : es[i].kind = kind

-----------------------------------------------------------------------------
(* from_api_data, lines 26-66: parse the text into a frame                 *)

TimezoneAllowed_AnyZone(tz) == TRUE
\* line 29
TimezoneAllowed(tz) == tz \in ALLOWED_TIMEZONES

Range(s) == {s[i] : i \in 1..Len(s)}

\* line 38: "timestamp" in df.columns
HasTimestampColumn(header) == "timestamp" \in Range(header)

HasTwoColumns_AtLeast(header) == Len(header) >= 2
\* line 40: len(df.columns) == 2
HasTwoColumns(header) == Len(header) = 2

\* the column that is not `timestamp` (df.columns[0] after set_index)
ValueColumn(header) ==
    LET others == SelectSeq(header, LAMBDA c : c # "timestamp")
    IN  IF others = <<>> THEN "timestamp" ELSE others[1]

\* str.lower on the column labels and the file names of the model
Lower(label) ==
    CASE label = "Value" -> "value"
      [] label = "VALUE" -> "value"
      [] label = "Timestamp" -> "timestamp"
      [] label = "Hourly" -> "hourly"
      [] label = ".CSV" -> ".csv"
      [] OTHER -> label

CanonicalLabel_CaseSensitive(label) == IF label # "value" THEN "value" ELSE label
\* lines 64-66: the label of the value column after the rename
CanonicalLabel(label) == IF Lower(label) # "value" THEN "value" ELSE label

TsCol(rows) == [i \in 1..Len(rows) |-> rows[i].ts]
ValCol(rows) == [i \in 1..Len(rows) |-> rows[i].val]

\* line 47: pd.api.types.is_string_dtype(df["timestamp"]); read_csv gives
\* an int64 column when every cell is digits, an object column of strings
\* otherwise (an empty column is an object column and counts as strings)
IsStringDtype(col) == Len(col) = 0 \/ \E i \in 1..Len(col) : col[i].kind # "int"

FirstIsNaive_Always(col) == TRUE
\* line 49: pd.to_datetime(first, errors="coerce").tzinfo is None
\* (an unparseable text coerces to NaT, whose tzinfo is None)
FirstIsNaive(col) == col[1].kind # "aware"

\* lines 52 and 57: pd.to_datetime(column, errors="raise") raises when a
\* cell is no timestamp, or does not match the format of the first cell
ColumnParses(col) ==
    /\ col[1].kind \in {"naive", "aware"}
    /\ \A i \in 1..Len(col) : col[i].kind = col[1].kind

\* lines 52-54: tz_localize tags the wall-clock value with the zone
Localize(col, tz) == [i \in 1..Len(col) |-> col[i].w - UtcOffset(tz)]
ConvertUtc_IgnoreOffset(col, tz) == [i \in 1..Len(col) |-> col[i].w]
\* lines 57-61: utc=True reads the offset, tz_convert keeps the instant
ConvertUtc(col, tz) == [i \in 1..Len(col) |-> col[i].w - col[i].off]

\* the index after set_index: a DatetimeIndex in `tz` holding instants, or
\* an Int64Index when the column was never converted
DatetimeIndex(tz, instants) == [dtype |-> "datetime", tz |-> tz, values |-> instants]
IntIndex(col) == [dtype |-> "int64", tz |-> "", values |-> [i \in 1..Len(col) |-> col[i].w]]

Frame(index, label, data) == [index |-> index, columns |-> <<label>>, data |-> data]

ParseResult(ok, frame, errs, steps) ==
    [ok |-> ok, frame |-> frame, errors |-> errs, ran |-> steps]

\* lines 46-66, once the text is read and the columns are checked
ResolveTimestamps(csv, tz) ==
    LET col == TsCol(csv.rows)
        label == CanonicalLabel(ValueColumn(csv.header))
        data == ValCol(csv.rows)
        steps == <<"check_timezone", "read_csv", "check_columns">>
    IN  IF ~IsStringDtype(col)
        THEN ParseResult(TRUE, Frame(IntIndex(col), label, data), <<>>,
                         steps \o <<"set_index">>)
        ELSE IF Len(col) = 0
        THEN ParseResult(FALSE, None, <<Err("IndexError", {})>>, steps)
        ELSE IF ~ColumnParses(col)
        THEN ParseResult(FALSE, None, <<Err("TimestampParseError", {})>>,
                         steps \o <<"to_datetime">>)
        ELSE LET instants == IF FirstIsNaive(col) THEN Localize(col, tz)
                                                  ELSE ConvertUtc(col, tz)
             IN  ParseResult(TRUE, Frame(DatetimeIndex(tz, instants), label, data),
                             <<>>, steps \o <<"to_datetime", "set_index">>)

\* lines 26-66
ParseCsv(r) ==
    LET csv == r.csv_text
        tz == r.timezone
    IN  IF ~TimezoneAllowed(tz)
        THEN ParseResult(FALSE, None,
                         <<Err("TimezoneNotAllowed", ALLOWED_TIMEZONES)>>,
                         <<"check_timezone">>)
        ELSE IF ~csv.readable
        THEN ParseResult(FALSE, None, <<Err("CsvParseFailed", {})>>,
                         <<"check_timezone", "read_csv">>)
        ELSE IF ~HasTimestampColumn(csv.header)
        THEN ParseResult(FALSE, None, <<Err("MissingTimestampColumn", {})>>,
                         <<"check_timezone", "read_csv", "check_columns">>)
        ELSE IF ~HasTwoColumns(csv.header)
        THEN ParseResult(FALSE, None, <<Err("NotTwoColumns", {})>>,
                         <<"check_timezone", "read_csv", "check_columns">>)
        ELSE ResolveTimestamps(csv, tz)

-----------------------------------------------------------------------------
(* validate_dataframe, lines 85-118                                        *)

MinOf(S) == CHOOSE x \in S : \A y \in S : x <= y
MaxOf(S) == CHOOSE x \in S : \A y \in S : x >= y

\* index._is_monotonic_increasing or index._is_monotonic_decreasing
IsMonotonic(v) ==
    \/ \A i \in 1..(Len(v) - 1) : v[i] <= v[i + 1]
    \/ \A i \in 1..(Len(v) - 1) : v[i] >= v[i + 1]

IsUnique_Always(v) == TRUE
\* index._is_unique
IsUnique(v) == \A i, j \in 1..Len(v) : i # j => v[i] # v[j]

\* unique_deltas: the set of first differences
Deltas(v) == {v[i + 1] - v[i] : i \in 1..(Len(v) - 1)}

Freq(unit, n) == [unit |-> unit, n |-> n]

\* line 100: pd.infer_freq(df.index) on an index of at least 3 points.
\* _FrequencyInferer.get_freq: no frequency unless the index is monotonic
\* and unique.  deltas[0], the smallest difference, decides the branch: a
\* multiple of one day goes to _infer_daily_rule, anything else to the
\* intraday rules, and both return a frequency only when all differences
\* are equal.  Within the window of the model the calendar rules of
\* _infer_daily_rule (annual, quarterly, monthly, business-day,
\* week-of-month, weekly) and the business-hour rule never match: three
\* timestamps at least a day apart are not all on the first or last
\* (business) day of January, and no two timestamps are 17, 65, 72 or 168
\* hours apart.
InferFreq(v) ==
    IF ~IsMonotonic(v) \/ ~IsUnique(v) THEN None
    ELSE LET d == MinOf(Deltas(v))
         IN  IF Cardinality(Deltas(v)) # 1 THEN None
             ELSE IF d # 0 /\ d % 24 = 0 THEN Freq("D", d \div 24)
             ELSE Freq("h", d)

FullIndexFreq_Hourly(v) == Freq("h", 1)
\* line 106: the frequency the expected grid is built with
FullIndexFreq(v) == InferFreq(v)

\* lines 105-107: pd.date_range(start, end, freq); a negative frequency
\* with start < end gives an empty index
DateRange(start, end, f) ==
    LET step == IF f.unit = "D" THEN 24 * f.n ELSE f.n
    IN  IF step <= 0 THEN <<>>
        ELSE [i \in 1..((end - start) \div step + 1) |-> start + (i - 1) * step]

MinPoints_Two(n) == n >= 2
\* line 96: at least three data points
MinPoints(n) == n >= 3

\* line 112: is_numeric_dtype; read_csv gives an object column as soon as
\* one cell is text
IsNumericDtype(data) == \A i \in 1..Len(data) : data[i].kind # "text"
HasNull_Never(data) == FALSE
\* line 114
HasNull(data) == \E i \in 1..Len(data) : data[i].kind = "null"
HasNonPositive_Negative(data) ==
    \E i \in 1..Len(data) : data[i].kind = "num" /\ data[i].v < 0
\* line 116
HasNonPositive(data) ==
    \E i \in 1..Len(data) : data[i].kind = "num" /\ data[i].v <= 0

Validation(errs, steps) == [errors |-> errs, ran |-> steps]

\* lines 111-118
ValidateValues(data, steps) ==
    LET s == steps \o <<"check_values">>
    IN  IF ~IsNumericDtype(data) THEN Validation(<<Err("NotNumeric", {})>>, s)
        ELSE IF HasNull(data) THEN Validation(<<Err("NullValues", {})>>, s)
        ELSE IF HasNonPositive(data) THEN Validation(<<Err("NonPositive", {})>>, s)
        ELSE Validation(<<>>, s)

ValidateContinuity_NoCheck(frame, steps) == ValidateValues(frame.data, steps)
\* lines 99-109, then the value checks
ValidateContinuity(frame, steps) ==
    LET v == frame.index.values
        s1 == steps \o <<"infer_freq">>
        s2 == s1 \o <<"date_range">>
    IN  IF InferFreq(v) = None
        THEN Validation(<<Err("FreqNotInferred", {})>>, s1)
        ELSE IF v # DateRange(MinOf(Range(v)), MaxOf(Range(v)), FullIndexFreq(v))
        THEN Validation(<<Err("MissingDates", {})>>, s2)
        ELSE ValidateValues(frame.data, s2)

\* lines 85-118
ValidateDataframe(frame) ==
    LET s == <<"validate_dataframe">>
    IN  IF frame.index.dtype # "datetime"
        THEN Validation(<<Err("IndexNotDatetime", {})>>, s)
        ELSE IF frame.index.tz = ""
        THEN Validation(<<Err("IndexNotTzAware", {})>>, s)
        ELSE IF Len(frame.columns) # 1
        THEN Validation(<<Err("NotOneDataColumn", {})>>, s)
        ELSE IF ~MinPoints(Len(frame.index.values))
        THEN Validation(<<Err("TooFewPoints", {})>>, s)
        ELSE ValidateContinuity(frame, s)

ValidateGranularity_NoCheck(v) == Validation(<<>>, <<"validate_granularity">>)
\* lines 70-77
ValidateGranularity(v) ==
    IF v \notin DOMAIN GRANULARITY_FREQ_MAP
    THEN Validation(<<Err("GranularityNotSupported", DOMAIN GRANULARITY_FREQ_MAP)>>,
                    <<"validate_granularity">>)
    ELSE Validation(<<>>, <<"validate_granularity">>)

\* lines 79-83
ValidateTimezone(v) ==
    IF v \notin ALLOWED_TIMEZONES
    THEN Validation(<<Err("TimezoneNotInList", ALLOWED_TIMEZONES)>>,
                    <<"validate_timezone">>)
    ELSE Validation(<<>>, <<"validate_timezone">>)

CollectErrors_FirstOnly(a, b, c) ==
    IF a.errors # <<>> THEN a
    ELSE IF b.errors # <<>> THEN Validation(b.errors, a.ran \o b.ran)
    ELSE Validation(c.errors, a.ran \o b.ran \o c.ran)
\* pydantic runs the validator of every field, in the order the fields are
\* declared (lines 19-21), and reports the failures of all of them
CollectErrors(a, b, c) ==
    Validation(a.errors \o b.errors \o c.errors, a.ran \o b.ran \o c.ran)

\* line 68: cls(dataframe=df, granularity=raw_granularity, timezone=raw_tz)
ValidateModel(frame, granularity, timezone) ==
    CollectErrors(ValidateDataframe(frame),
                  ValidateGranularity(granularity),
                  ValidateTimezone(timezone))

APITimeSeriesInput(frame, granularity, timezone) ==
    [dataframe |-> frame, granularity |-> granularity, timezone |-> timezone]

\* from_api_data as a function of its argument: the instance returned, or
\* the errors of the exception raised
FromApiData(r) ==
    LET p == ParseCsv(r)
    IN  IF ~p.ok
        THEN [ok |-> FALSE, value |-> None, errors |-> p.errors, ran |-> p.ran]
        ELSE LET m == ValidateModel(p.frame, r.granularity, r.timezone)
             IN  [ok |-> m.errors = <<>>,
                  value |-> IF m.errors = <<>>
                            THEN APITimeSeriesInput(p.frame, r.granularity, r.timezone)
                            ELSE None,
                  errors |-> m.errors,
                  ran |-> p.ran \o m.ran]

-----------------------------------------------------------------------------
(* TimeSeriesData (src/data/schemas/timeseries.py): the constructor and    *)
(* its field validators                                                    *)

\* str.strip on the names of the model
Strip(name) ==
    CASE name = " " -> ""
      [] name = " a" -> "a"
      [] OTHER -> name

ValidateName_NoStrip(v) ==
    IF v = ""
    THEN Validation(<<Err("NameEmpty", {})>>, <<"validate_name">>)
    ELSE Validation(<<>>, <<"validate_name">>)
\* lines 24-29: not v or v.strip() == ""
ValidateName(v) ==
    IF v = "" \/ Strip(v) = ""
    THEN Validation(<<Err("NameEmpty", {})>>, <<"validate_name">>)
    ELSE Validation(<<>>, <<"validate_name">>)

\* lines 31-61: index type, timezone of the index, one data column,
\* numeric, no null
ValidateDataframeSchemaContent(frame) ==
    LET s == <<"validate_dataframe_schema_content">>
    IN  IF frame.index.dtype # "datetime"
        THEN Validation(<<Err("IndexNotDatetime", {})>>, s)
        ELSE IF frame.index.tz = ""
        THEN Validation(<<Err("IndexNotTzAware", {})>>, s)
        ELSE IF frame.index.tz \notin ALLOWED_TIMEZONES
        THEN Validation(<<Err("IndexTimezoneNotAllowed", ALLOWED_TIMEZONES)>>, s)
        ELSE IF Len(frame.columns) # 1
        THEN Validation(<<Err("NotOneDataColumn", {})>>, s)
        ELSE IF ~IsNumericDtype(frame.data)
        THEN Validation(<<Err("NotNumeric", {})>>, s)
        ELSE IF HasNull(frame.data)
        THEN Validation(<<Err("NullValues", {})>>, s)
        ELSE Validation(<<>>, s)

\* lines 63-68
EntityValidateGranularity(v) ==
    IF v \notin DOMAIN GRANULARITY_FREQ_MAP
    THEN Validation(<<Err("GranularityNotSupported", {})>>, <<"validate_granularity">>)
    ELSE Validation(<<>>, <<"validate_granularity">>)

TimeSeriesData(frame, granularity, name) ==
    [dataframe |-> frame, granularity |-> granularity, name |-> name]

\* TimeSeriesData(dataframe=..., granularity=..., name=...): the validators
\* run in the order the fields are declared (lines 20-22) and the
\* failures of all of them are reported
NewTimeSeriesData(frame, granularity, name) ==
    LET m == CollectErrors(ValidateDataframeSchemaContent(frame),
                           EntityValidateGranularity(granularity),
                           ValidateName(name))
    IN  [ok |-> m.errors = <<>>,
         value |-> IF m.errors = <<>>
                   THEN TimeSeriesData(frame, granularity, name)
                   ELSE None,
         errors |-> m.errors,
         ran |-> m.ran]

-----------------------------------------------------------------------------
(* TimeSeriesData.to_csv (src/data/schemas/timeseries.py): the text        *)

\* line 107: self.dataframe.to_csv().  The header row is the name of the
\* index, `timestamp`, and the label of the data column; a timestamp of a
\* timezone-aware index is written as its wall-clock time in the zone of
\* the index followed by the offset of that zone; a value is written as
\* the number it is.
DataframeToCsv(frame) ==
    LET off == UtcOffset(frame.index.tz)
    IN  MkCsv(TRUE, <<"timestamp", frame.columns[1]>>,
              [i \in 1..Len(frame.index.values) |->
                  [ts |-> AwareCell(frame.index.values[i] + off, off),
                   val |-> frame.data[i]]])

-----------------------------------------------------------------------------
(* The calls, as a state machine                                           *)

Init ==
    /\ raw \in RawData
    /\ pc = "call"
    /\ df = None
    /\ errors = <<>>
    /\ ran = <<>>
    /\ out = None
    /\ again = None
    /\ args = None
    /\ ts = None
    /\ handlers = None
    /\ fs = None
    /\ env = None

\* from_api_data up to line 66
Parse ==
    /\ pc = "call"
    /\ LET p == ParseCsv(raw)
       IN  /\ pc' = IF p.ok THEN "construct" ELSE "raised"
           /\ df' = p.frame
           /\ errors' = p.errors
           /\ ran' = p.ran
    /\ UNCHANGED <<raw, out, again, entityVars, routeVars>>

\* from_api_data line 68: the model is built and validated
Construct ==
    /\ pc = "construct"
    /\ LET m == ValidateModel(df, raw.granularity, raw.timezone)
       IN  /\ errors' = m.errors
           /\ ran' = ran \o m.ran
           /\ pc' = IF m.errors = <<>> THEN "returned" ELSE "raised"
           /\ out' = IF m.errors = <<>>
                     THEN APITimeSeriesInput(df, raw.granularity, raw.timezone)
                     ELSE None
    /\ UNCHANGED <<raw, df, again, entityVars, routeVars>>

\* the instance returned is rendered with to_csv (the frame goes through
\* to_timeseries unchanged) and the text is given to from_api_data with
\* the granularity and the timezone of the instance
RoundTrip ==
    /\ pc = "returned"
    /\ LET text == DataframeToCsv(out.dataframe)
       IN  again' = [csv_text |-> text,
                     result |-> FromApiData([csv_text |-> text,
                                             granularity |-> out.granularity,
                                             timezone |-> out.timezone])]
    /\ pc' = "reingested"
    /\ UNCHANGED <<raw, df, errors, ran, out, entityVars, routeVars>>

Next == Parse \/ Construct \/ RoundTrip

Spec == Init /\ [][Next]_vars

Done == pc \in {"returned", "raised"}

-----------------------------------------------------------------------------
(* Direct construction of the domain entity                                *)

\* frames a caller may hand to TimeSeriesData: frames read from CSV text
\* (two to MaxLen rows, a faulty value in the second row or none, a
\* datetime or an integer index), the valid ones also with a naive index
\* or an index in a zone outside the allow-list, and with a second column
EntityCsvs ==
    {MkCsv(TRUE, GoodHeader, MkRows(s, k, f, 2)) :
        s \in {t \in IncreasingSeqs : Len(t) >= 2},
        k \in {"naive", "int"},
        f \in ValueFaults \cup {"none"}}

ParsedFrames ==
    {ParseCsv([csv_text |-> c, granularity |-> "hourly", timezone |-> tz]).frame :
        c \in EntityCsvs, tz \in ALLOWED_TIMEZONES}

PositiveFrames ==
    {f \in ParsedFrames :
        /\ f.index.dtype = "datetime"
        /\ \A i \in 1..Len(f.data) : f.data[i].kind = "num" /\ f.data[i].v > 0}

EntityFrames ==
    ParsedFrames
    \cup {[f EXCEPT !.index.tz = z] : f \in PositiveFrames, z \in {"", "Asia/Tokyo"}}
    \cup {[f EXCEPT !.columns = <<"value", "extra">>] : f \in PositiveFrames}

InitEntity ==
    /\ args \in [dataframe : EntityFrames, granularity : Granularities, name : EntityNames]
    /\ pc = "new"
    /\ ts = None
    /\ errors = <<>>
    /\ ran = <<>>
    /\ raw = None
    /\ df = None
    /\ out = None
    /\ again = None
    /\ handlers = None
    /\ fs = None
    /\ env = None

\* TimeSeriesData(dataframe=..., granularity=..., name=...)
BuildTimeSeriesData ==
    /\ pc = "new"
    /\ LET r == NewTimeSeriesData(args.dataframe, args.granularity, args.name)
       IN  /\ pc' = IF r.ok THEN "built" ELSE "invalid"
           /\ ts' = r.value
           /\ errors' = r.errors
           /\ ran' = r.ran
    /\ UNCHANGED <<raw, df, out, again, args, routeVars>>

NextEntity == BuildTimeSeriesData

SpecEntity == InitEntity /\ [][NextEntity]_vars

-----------------------------------------------------------------------------
(* Vocabulary of the properties                                            *)

Header == raw.csv_text.header
Rows == raw.csv_text.rows

\* cls(...) was reached: the text was parsed into a frame
ReachedConstruct == Done /\ df # None

\* the frame has a DatetimeIndex, so validate_dataframe reaches its checks
\* of length, continuity and values
HasDatetimeIndex == ReachedConstruct /\ df.index.dtype = "datetime"

\* v is the full regular grid from its first to its last element at one
\* positive step, and has at least 3 points
RegularGrid(v) ==
    /\ Len(v) >= 3
    /\ \E step \in 1..(v[Len(v)] - v[1]) :
          \A i \in 1..Len(v) : v[i] = v[1] + (i - 1) * step

StepOf(v) == v[2] - v[1]

AllPositive(data) == \A i \in 1..Len(data) : data[i].kind = "num" /\ data[i].v > 0
BadValue(data) ==
    \E i \in 1..Len(data) :
        data[i].kind = "null" \/ (data[i].kind = "num" /\ data[i].v <= 0)

ContinuityKinds == {"FreqNotInferred", "MissingDates"}
ValueDomainKinds == {"NotNumeric", "NullValues", "NonPositive"}
DataframeKinds ==
    {"IndexNotDatetime", "IndexNotTzAware", "NotOneDataColumn", "TooFewPoints"}
        \cup ContinuityKinds \cup ValueDomainKinds

\* the header passes the column checks
ValidSchema == Len(Header) = 2 /\ "timestamp" \in Range(Header)

\* every timestamp cell is a timestamp, all in one textual form
ParseableTimestamps ==
    \A i \in 1..Len(Rows) :
        Rows[i].ts.kind \in {"naive", "aware"} /\ Rows[i].ts.kind = Rows[1].ts.kind

\* timezone allowed, text readable, two columns with `timestamp`, parseable
\* timestamps whose instants (wall-clock hour less the offset written) are
\* on a regular grid, positive values
FullyValidCsv ==
    /\ raw.timezone \in {"UTC", "Europe/Paris"}
    /\ raw.csv_text.readable
    /\ ValidSchema
    /\ ParseableTimestamps
    /\ RegularGrid([i \in 1..Len(Rows) |-> Rows[i].ts.w - Rows[i].ts.off])
    /\ AllPositive(ValCol(Rows))

InsertAt(s, k, x) == SubSeq(s, 1, k - 1) \o <<x>> \o SubSeq(s, k, Len(s))
RemoveAt(s, k) == SubSeq(s, 1, k - 1) \o SubSeq(s, k + 1, Len(s))
WithRows(r, rows) == [r EXCEPT !.csv_text.rows = rows]

-----------------------------------------------------------------------------
\* C1: when the declared timezone is not in the allow-list, from_api_data
\* raises the timezone error and nothing else, whatever the CSV text is:
\* the allow-list check is the only step that ran, so the text was neither
\* read nor checked.
C1_TimezoneCheckedFirst ==
    (Done /\ raw.timezone \notin {"UTC", "Europe/Paris"}) =>
        /\ pc = "raised"
        /\ Kinds(errors) = <<"TimezoneNotAllowed">>
        /\ ran = <<"check_timezone">>

\* a text read_csv cannot read, with a disallowed timezone, was rejected
C1_Witness ==
    /\ pc = "raised"
    /\ raw.timezone = "Asia/Tokyo"
    /\ ~raw.csv_text.readable
    /\ Kinds(errors) = <<"TimezoneNotAllowed">>

-----------------------------------------------------------------------------
StepOrder ==
    <<"check_timezone", "read_csv", "check_columns", "to_datetime", "set_index",
      "validate_dataframe", "infer_freq", "date_range", "check_values",
      "validate_granularity", "validate_timezone">>

StepPos(step) == CHOOSE i \in 1..Len(StepOrder) : StepOrder[i] = step

InStepOrder(steps) ==
    \A i, j \in 1..Len(steps) : i < j => StepPos(steps[i]) < StepPos(steps[j])

\* the frame fails the continuity check or the value check
IrregularOrNonPositive ==
    /\ HasDatetimeIndex
    /\ Len(df.index.values) >= 3
    /\ ~RegularGrid(df.index.values) \/ BadValue(df.data)

-----------------------------------------------------------------------------
\* hours between two points of the canonical frequency a granularity is
\* mapped to by GRANULARITY_FREQ_MAP ("M", a calendar month, is no fixed
\* number of hours: 0)
CanonicalStep(granularity) ==
    CASE GRANULARITY_FREQ_MAP[granularity] = "H" -> 1
      [] GRANULARITY_FREQ_MAP[granularity] = "D" -> 24
      [] OTHER -> 0

\* the frame is a regular, gap-free series whose cadence is not the one the
\* declared (supported) granularity is mapped to
CadenceMismatch ==
    /\ HasDatetimeIndex
    /\ raw.granularity \in DOMAIN GRANULARITY_FREQ_MAP
    /\ RegularGrid(df.index.values)
    /\ StepOf(df.index.values) # CanonicalStep(raw.granularity)

\* C3 as stated: a supported granularity whose canonical frequency differs
\* from the cadence of the timestamps makes ingestion fail with a
\* continuity error.
C3_Original ==
    CadenceMismatch =>
        /\ pc = "raised"
        /\ \E i \in 1..Len(errors) : errors[i].kind \in ContinuityKinds

\* C3 amended: the declared granularity is not compared with the cadence of
\* the timestamps.  A regular, gap-free series with positive values is
\* accepted under every supported granularity, also one whose canonical
\* frequency differs from the cadence (a daily series declared as hourly),
\* because the expected grid is rebuilt with the frequency inferred from
\* the index.
C3_CadenceNotCompared ==
    (CadenceMismatch /\ AllPositive(df.data)) =>
        /\ pc = "returned"
        /\ errors = <<>>
        /\ out.granularity = raw.granularity

\* a daily series declared as hourly was accepted
C3_Witness ==
    /\ pc = "returned"
    /\ raw.granularity = "hourly"
    /\ out.dataframe.index.values = <<0, 24, 48>>

-----------------------------------------------------------------------------
\* C4: every APITimeSeriesInput returned has a strictly increasing index,
\* timezone-aware in the declared timezone, which is in the allow-list; the
\* index is the full regular grid from its first to its last timestamp and
\* has at least 3 points; every value is a number, not null and > 0; the
\* granularity and timezone returned are the declared ones; there is one
\* point per data row of the CSV.
C4_ReturnedIsValid ==
    pc = "returned" =>
        LET idx == out.dataframe.index
            v == idx.values
        IN  /\ \A i \in 1..(Len(v) - 1) : v[i] < v[i + 1]
            /\ idx.dtype = "datetime"
            /\ idx.tz = raw.timezone
            /\ raw.timezone \in {"UTC", "Europe/Paris"}
            /\ RegularGrid(v)
            /\ Len(v) >= 3
            /\ AllPositive(out.dataframe.data)
            /\ out.granularity = raw.granularity
            /\ out.timezone = raw.timezone
            /\ Len(v) = Len(Rows)
            /\ Len(out.dataframe.data) = Len(Rows)

\* a series of four points was returned in the zone Europe/Paris
C4_Witness ==
    /\ pc = "returned"
    /\ out.timezone = "Europe/Paris"
    /\ Len(out.dataframe.index.values) = 4

-----------------------------------------------------------------------------
\* a row with a valid value at wall-clock hour t, in the textual form of
\* the rows already there
MiddleRow(t) == [ts |-> TsCell(Rows[1].ts.kind, t), val |-> ValCell("num", 1)]

\* the rows of the call are those of an accepted series with the row at
\* position k (not the first, not the last) removed
GapOf(k, t) == FromApiData(WithRows(raw, InsertAt(Rows, k, MiddleRow(t)))).ok

\* C5: a series obtained from an accepted regular series by removing one
\* element that is neither the first nor the last is never accepted: it is
\* rejected with a continuity error (frequency not inferred, or missing
\* dates) when at least 3 points remain, and with the minimum-length error
\* when fewer than 3 remain.
C5_GapDetected ==
    Done =>
        \/ /\ pc = "raised"
           /\ IF Len(Rows) >= 3
              THEN Kinds(errors) \in {<<"FreqNotInferred">>, <<"MissingDates">>}
              ELSE Kinds(errors) = <<"TooFewPoints">>
        \/ \A k \in 2..Len(Rows), t \in Ticks : ~GapOf(k, t)

\* an accepted series of four points lost a middle point and was rejected
C5_Witness ==
    /\ pc = "raised"
    /\ Len(Rows) = 3
    /\ \E k \in 2..Len(Rows), t \in Ticks : GapOf(k, t)
    /\ Kinds(errors) = <<"FreqNotInferred">>

-----------------------------------------------------------------------------
\* row k repeats the timestamp of another row, and the rows without row k
\* are an accepted series
DuplicateOf(k) ==
    /\ \E j \in 1..Len(Rows) : j # k /\ Rows[j].ts = Rows[k].ts
    /\ FromApiData(WithRows(raw, RemoveAt(Rows, k))).ok

\* C6: a series obtained from an accepted regular series by repeating one
\* of its timestamps in an extra row is rejected with a continuity error,
\* and no series with two rows of the same timestamp is ever accepted.
C6_DuplicateDetected ==
    Done =>
        /\ \A k \in 1..Len(Rows) :
              DuplicateOf(k) =>
                  /\ pc = "raised"
                  /\ Kinds(errors) \in {<<"FreqNotInferred">>, <<"MissingDates">>}
        /\ pc = "returned" =>
              \A i, j \in 1..Len(Rows) : i # j => Rows[i].ts # Rows[j].ts

\* an accepted series with one timestamp repeated, under another value,
\* was rejected
C6_Witness ==
    /\ pc = "raised"
    /\ \E k \in 1..Len(Rows) :
          /\ DuplicateOf(k)
          /\ \A j \in 1..Len(Rows) : j # k => Rows[j].val # Rows[k].val
    /\ Kinds(errors) = <<"FreqNotInferred">>

-----------------------------------------------------------------------------
\* C7: with an allowed timezone, a valid schema and parseable timestamps, a
\* series of fewer than 3 points is rejected with the error "at least three
\* data points" and frequency inference is not invoked on it; a series of
\* exactly 3 regularly spaced points with valid values is accepted.
C7_LengthBoundary ==
    (/\ Done
     /\ raw.timezone \in {"UTC", "Europe/Paris"}
     /\ raw.csv_text.readable
     /\ ValidSchema
     /\ ParseableTimestamps) =>
        /\ Len(Rows) < 3 =>
              /\ pc = "raised"
              /\ HasErr(errors, "TooFewPoints")
              /\ "infer_freq" \notin Range(ran)
        /\ (/\ Len(Rows) = 3
            /\ FullyValidCsv
            /\ raw.granularity \in {"hourly", "daily", "monthly"}) =>
              pc = "returned"

-----------------------------------------------------------------------------
\* C8 as stated: every series (of at least 3 points) that contains a null
\* or a value <= 0 fails with a value-domain error, whether or not its
\* index is continuous.
C8_Original ==
    (HasDatetimeIndex /\ Len(df.data) >= 3 /\ BadValue(df.data)) =>
        /\ pc = "raised"
        /\ \E i \in 1..Len(errors) : errors[i].kind \in ValueDomainKinds

\* C8 amended: the value checks run after the length and continuity checks.
\* A series that contains a null or a value <= 0 fails with a value-domain
\* error when its index is a regular grid of at least 3 points; when it has
\* fewer than 3 points, a gap, a duplicate or an unordered index, the
\* length or continuity failure is reported instead and no value-domain
\* error is.
C8_ValueDomainAfterContinuity ==
    (HasDatetimeIndex /\ BadValue(df.data)) =>
        /\ pc = "raised"
        /\ IF RegularGrid(df.index.values)
           THEN errors[1].kind \in ValueDomainKinds
           ELSE /\ errors[1].kind \in {"TooFewPoints"} \cup ContinuityKinds
                /\ \A i \in 1..Len(errors) : errors[i].kind \notin ValueDomainKinds
        /\ "check_values" \in Range(ran) <=> RegularGrid(df.index.values)

\* a regular series with a null was rejected with the null-value error
C8_Witness ==
    /\ pc = "raised"
    /\ HasDatetimeIndex
    /\ RegularGrid(df.index.values)
    /\ \E i \in 1..Len(df.data) : df.data[i].kind = "null"
    /\ Kinds(errors) = <<"NullValues">>

-----------------------------------------------------------------------------
\* the call got as far as the column checks
ColumnsChecked == Done /\ raw.timezone \in {"UTC", "Europe/Paris"} /\ raw.csv_text.readable

SchemaKinds == {"MissingTimestampColumn", "NotTwoColumns"}

\* C9 as stated: a header that does not have exactly two columns is
\* rejected with the two-columns error, a header without a column named
\* exactly `timestamp` with the missing-timestamp error, both before any
\* timestamp is parsed; two columns with `timestamp` in either position
\* pass.
C9_Original ==
    ColumnsChecked =>
        /\ Len(Header) # 2 =>
              /\ Kinds(errors) = <<"NotTwoColumns">>
              /\ "to_datetime" \notin Range(ran)
        /\ "timestamp" \notin Range(Header) =>
              /\ Kinds(errors) = <<"MissingTimestampColumn">>
              /\ "to_datetime" \notin Range(ran)
        /\ ValidSchema => \A i \in 1..Len(errors) : errors[i].kind \notin SchemaKinds

\* C9 amended: with an allowed timezone and a readable text, a header
\* without a column named exactly `timestamp` is rejected with the
\* missing-timestamp error whatever its number of columns; a header that
\* has that column but not exactly two columns is rejected with the
\* two-columns error; both before any timestamp is parsed; two columns with
\* `timestamp` in either position pass.
C9_SchemaCheck ==
    ColumnsChecked =>
        /\ (Len(Header) # 2 /\ "timestamp" \in Range(Header)) =>
              /\ pc = "raised"
              /\ Kinds(errors) = <<"NotTwoColumns">>
              /\ "to_datetime" \notin Range(ran)
        /\ "timestamp" \notin Range(Header) =>
              /\ pc = "raised"
              /\ Kinds(errors) = <<"MissingTimestampColumn">>
              /\ "to_datetime" \notin Range(ran)
        /\ ValidSchema =>
              /\ \A i \in 1..Len(errors) : errors[i].kind \notin SchemaKinds
              /\ "check_columns" \in Range(ran)

\* three columns over a row with an unparseable timestamp were rejected
\* with the two-columns error
C9_Witness ==
    /\ pc = "raised"
    /\ Header = <<"timestamp", "value", "extra">>
    /\ \E i \in 1..Len(Rows) : Rows[i].ts.kind = "bad"
    /\ Kinds(errors) = <<"NotTwoColumns">>

-----------------------------------------------------------------------------
\* C10: once the text is parsed, a granularity that is not a key of the
\* granularity map (hourly, daily, monthly) makes ingestion fail with the
\* not-supported error, whose message lists these keys; with a valid
\* timezone and a fully valid CSV it is the only failure; a granularity
\* that is a key never gets this error.
C10_GranularityValidated ==
    /\ (ReachedConstruct /\ raw.granularity \notin {"hourly", "daily", "monthly"}) =>
          /\ pc = "raised"
          /\ \E i \in 1..Len(errors) :
                errors[i] = Err("GranularityNotSupported", {"hourly", "daily", "monthly"})
    /\ (Done /\ FullyValidCsv /\ raw.granularity \notin {"hourly", "daily", "monthly"}) =>
          Kinds(errors) = <<"GranularityNotSupported">>
    /\ (ReachedConstruct /\ raw.granularity \in {"hourly", "daily", "monthly"}) =>
          ~HasErr(errors, "GranularityNotSupported")

\* a fully valid CSV with the granularity "weekly" was rejected
C10_Witness ==
    /\ pc = "raised"
    /\ FullyValidCsv
    /\ raw.granularity = "weekly"
    /\ Kinds(errors) = <<"GranularityNotSupported">>

-----------------------------------------------------------------------------
(* Settings (src/config.py) and the upload routes (src/api/data/routers)   *)

\* the environment at start-up: no variable set, every field of
\* AppSettings has its default (config.py lines 8-24)
StartupEnv ==
    [DATA_DIR |-> "data", ALLOWED_TIMEZONES |-> {"UTC", "Europe/Paris"}]

\* environments the process may be put in after start-up
Envs ==
    { StartupEnv,
      [StartupEnv EXCEPT !.DATA_DIR = "data_test"],
      [StartupEnv EXCEPT !.ALLOWED_TIMEZONES = {"UTC", "Europe/Paris", "Asia/Tokyo"}] }

GetSettings_Startup(e) ==
    [data_dir |-> StartupEnv.DATA_DIR, raw_dir |-> "raw",
     allowed_timezones |-> StartupEnv.ALLOWED_TIMEZONES]
\* config.py lines 66-73: get_settings() builds a new AppSettings, whose
\* fields are read from the environment of the moment
GetSettings(e) ==
    [data_dir |-> e.DATA_DIR, raw_dir |-> "raw",
     allowed_timezones |-> e.ALLOWED_TIMEZONES]

\* settings.data_dir / settings.raw_dir / f"{prefix}_{granularity}.csv"
FilePath(settings, prefix, granularity) ==
    [data_dir |-> settings.data_dir, raw_dir |-> settings.raw_dir,
     file |-> <<prefix, "_", granularity, ".csv">>]

\* a file: its text, and the handler that wrote it (0: it was there before
\* the first request)
File(text, writer) == [text |-> text, writer |-> writer]

WriteText_Exclusive(files, path, text, h) ==
    IF files[path] = None THEN [files EXCEPT ![path] = File(text, h)] ELSE files
\* timeseries.py line 109: file_path.write_text(csv_text) creates the file
\* or replaces its content
WriteText(files, path, text, h) == [files EXCEPT ![path] = File(text, h)]

\* timeseries.py lines 102-103: the path to_csv writes to
ToCsvPath(t, e) == FilePath(GetSettings(e), t.name, t.granularity)

\* timeseries.py line 109: write_text opens the file, and open() raises
\* ValueError (embedded null byte) for a path that holds a NUL character
HasNullByte(path) == path.file[1] = NulName

\* timeseries.py lines 98-110: to_csv writes the text and returns it, or
\* ends with the exception of write_text and leaves the files as they were
ToCsv(t, files, e, h) ==
    LET text == DataframeToCsv(t.dataframe)
        path == ToCsvPath(t, e)
    IN  IF HasNullByte(path)
        THEN [ok |-> FALSE, text |-> None, path |-> path, fs |-> files,
              errors |-> <<Err("EmbeddedNullByte", {})>>]
        ELSE [ok |-> TRUE, text |-> text, path |-> path,
              fs |-> WriteText(files, path, text, h), errors |-> <<>>]

\* to_csv of the entity of the anonymous variant: the file is named
\* y_<granularity>.csv
YSeriesToCsv(t, files, e, h) ==
    LET text == DataframeToCsv(t.dataframe)
        path == FilePath(GetSettings(e), "y", t.granularity)
    IN  [text |-> text, path |-> path, fs |-> WriteText(files, path, text, h)]

\* from_api_data of the named variant: the tuple is (csv_text, name,
\* granularity, timezone), the stages are those of the anonymous variant
\* and the name is carried along
NamedFromApiData(r) ==
    LET a == FromApiData([csv_text |-> r.csv_text, granularity |-> r.granularity,
                          timezone |-> r.timezone])
    IN  [ok |-> a.ok,
         value |-> IF a.ok
                   THEN [dataframe |-> a.value.dataframe,
                         granularity |-> a.value.granularity,
                         timezone |-> a.value.timezone,
                         name |-> r.name]
                   ELSE None,
         errors |-> a.errors]

\* to_timeseries of the named variant
NamedToTimeseries(api) == NewTimeSeriesData(api.dataframe, api.granularity, api.name)

\* the entity of the anonymous variant: no name is given, the prefix `y`
\* identifies it
NewYSeriesData(frame, granularity) == NewTimeSeriesData(frame, granularity, "y")

\* y_series_api.py lines 120-122
ToTimeseries(api) == NewYSeriesData(api.dataframe, api.granularity)

RoutePath_Startup(t, e) == FilePath(GetSettings(StartupEnv), t.name, t.granularity)
RoutePath_YPrefix(t, e) == FilePath(GetSettings(e), "y", t.granularity)
\* timeseries_route.py lines 26-32
RoutePath(t, e) == FilePath(GetSettings(e), t.name, t.granularity)
\* y_series_route.py lines 25-26
YRoutePath(t, e) == FilePath(GetSettings(e), "y", t.granularity)

Response_CountsColumns(message, t, text, path, files) ==
    [message |-> message,
     data_points |-> Len(t.dataframe.columns),
     csv |-> text,
     file_path |-> path,
     file_written |-> files[path] # None]
\* timeseries_route.py lines 34-42, y_series_route.py lines 27-35
Response(message, t, text, path, files) ==
    [message |-> message,
     data_points |-> Len(t.dataframe.index.values),
     csv |-> text,
     file_path |-> path,
     file_written |-> files[path] # None]

\* what a handler leaves behind: its response or the errors of the
\* exception that ended it, and the files
Outcome(ok, resp, errs, files, wrote) ==
    [ok |-> ok, resp |-> resp, errors |-> errs, fs |-> files, wrote |-> wrote]

Failure_Truncates(errs, files) ==
    Outcome(FALSE, None, errs,
            [p \in DOMAIN files |-> IF files[p] = None THEN None
                                   ELSE File(<<>>, files[p].writer)],
            None)
\* an exception leaves the handler: nothing was written, nothing is
\* returned
Failure(errs, files) == Outcome(FALSE, None, errs, files, None)

\* timeseries_route.py lines 20-42, after the body of the request is read
RunTimeseriesUpload(req, files, e, h) ==
    LET api == NamedFromApiData(req)
    IN  IF ~api.ok THEN Failure(api.errors, files)
        ELSE LET t == NamedToTimeseries(api.value)
             IN  IF ~t.ok THEN Failure(t.errors, files)
                 ELSE LET w == ToCsv(t.value, files, e, h)
                          path == RoutePath(t.value, e)
                      IN  IF ~w.ok THEN Failure(w.errors, files)
                          ELSE Outcome(TRUE,
                                       Response("Timeseries data uploaded successfully.",
                                                t.value, w.text, path, w.fs),
                                       <<>>, w.fs, w.path)

\* y_series_route.py lines 19-35, after the body of the request is read
RunYSeriesUpload(req, files, e, h) ==
    LET api == FromApiData([csv_text |-> req.csv_text, granularity |-> req.granularity,
                            timezone |-> req.timezone])
    IN  IF ~api.ok THEN Failure(api.errors, files)
        ELSE LET t == ToTimeseries(api.value)
             IN  IF ~t.ok THEN Failure(t.errors, files)
                 ELSE LET w == YSeriesToCsv(t.value, files, e, h)
                          path == YRoutePath(t.value, e)
                      IN  Outcome(TRUE,
                                  Response("Y series data uploaded successfully.",
                                           t.value, w.text, path, w.fs),
                                  <<>>, w.fs, w.path)

\* Requests: two valid texts under every key, and one request for every
\* stage that can fail
CsvA == MkCsv(TRUE, GoodHeader, MkRows(<<0, 1, 2>>, "naive", "none", 0))
CsvB == MkCsv(TRUE, GoodHeader, MkRows(<<0, 24, 48, 72>>, "naive", "none", 0))

Request(variant, csv, name, granularity, timezone) ==
    [variant |-> variant, csv_text |-> csv, name |-> name,
     granularity |-> granularity, timezone |-> timezone]

ValidRequests ==
    {Request("named", c, n, g, "UTC") :
        c \in {CsvA, CsvB}, n \in {"a", "b"}, g \in {"hourly", "daily"}}
    \cup {Request("anonymous", c, "", g, "UTC") :
        c \in {CsvA, CsvB}, g \in {"hourly", "daily"}}

FailingRequests ==
    {Request(v, CsvA, "a", "hourly", "Asia/Tokyo") : v \in {"named", "anonymous"}}
    \cup {Request(v, c, "a", "hourly", "UTC") :
            v \in {"named", "anonymous"},
            c \in { UnreadableCsv,
                    MkCsv(TRUE, <<"timestamp", "value", "extra">>, CsvA.rows),
                    MkCsv(TRUE, GoodHeader, MkRows(<<0, 1, 2>>, "naive", "badts", 2)),
                    MkCsv(TRUE, GoodHeader, MkRows(<<0, 1, 3>>, "naive", "none", 0)),
                    MkCsv(TRUE, GoodHeader, MkRows(<<0, 1, 2>>, "naive", "zero", 2)) }}
    \cup {Request(v, CsvA, "a", "weekly", "UTC") : v \in {"named", "anonymous"}}
    \cup {Request("named", CsvA, n, "hourly", "UTC") : n \in {" ", NulName}}

Requests == ValidRequests \cup FailingRequests

Handlers == {1, 2}

\* every path a request of the model can be written to
Paths ==
    {FilePath(GetSettings(e), n, g) :
        e \in Envs, n \in {"a", "b", "y"}, g \in {"hourly", "daily"}}

OldFile == File(CsvB, 0)

Idle ==
    [pc |-> "idle", req |-> None, resp |-> None, errors |-> <<>>,
     wrote |-> None, at |-> None, turn |-> 0]

\* the process has started; data/raw/a_hourly.csv may be there already
InitRoute ==
    /\ handlers = [h \in Handlers |-> Idle]
    /\ env = StartupEnv
    /\ \E old \in {None, OldFile} :
          fs = [p \in Paths |->
                  IF p = FilePath(GetSettings(StartupEnv), "a", "hourly")
                  THEN old ELSE None]
    /\ raw = None
    /\ pc = "serving"
    /\ df = None
    /\ errors = <<>>
    /\ ran = <<>>
    /\ out = None
    /\ again = None
    /\ args = None
    /\ ts = None

\* handlers that have run to their end
Turns == Cardinality({h \in Handlers : handlers[h].turn > 0})

\* timeseries_route.py line 19, y_series_route.py line 18: the request
\* arrives and its body is read (await file.read())
Receive(h) ==
    /\ handlers[h].pc = "idle"
    /\ \E r \in Requests : handlers' = [handlers EXCEPT ![h].pc = "received", ![h].req = r]
    /\ UNCHANGED <<raw, pc, df, errors, ran, out, again, entityVars, fs, env>>

Finish(h, o) ==
    /\ handlers' = [handlers EXCEPT ![h] =
            [pc |-> IF o.ok THEN "responded" ELSE "failed",
             req |-> handlers[h].req,
             resp |-> o.resp,
             errors |-> o.errors,
             wrote |-> o.wrote,
             at |-> env,
             turn |-> Turns + 1]]
    /\ fs' = o.fs

\* upload_timeseries_csv from line 20 on: no await, the rest of the
\* handler runs in one piece
UploadTimeseriesCsv(h) ==
    /\ handlers[h].pc = "received"
    /\ handlers[h].req.variant = "named"
    /\ Finish(h, RunTimeseriesUpload(handlers[h].req, fs, env, h))
    /\ UNCHANGED <<raw, pc, df, errors, ran, out, again, entityVars, env>>

\* upload_y_series_csv from line 19 on
UploadYSeriesCsv(h) ==
    /\ handlers[h].pc = "received"
    /\ handlers[h].req.variant = "anonymous"
    /\ Finish(h, RunYSeriesUpload(handlers[h].req, fs, env, h))
    /\ UNCHANGED <<raw, pc, df, errors, ran, out, again, entityVars, env>>

\* os.environ["DATA_DIR"] = ... after start-up, as in
\* tests/api/routers/test_y_series_route.py line 40
SetEnv ==
    /\ \E e \in Envs \ {env} : env' = e
    /\ UNCHANGED <<raw, pc, df, errors, ran, out, again, entityVars, handlers, fs>>

NextRoute ==
    \/ \E h \in Handlers : Receive(h)
    \/ \E h \in Handlers : UploadTimeseriesCsv(h)
    \/ \E h \in Handlers : UploadYSeriesCsv(h)
    \/ SetEnv

SpecRoute == InitRoute /\ [][NextRoute]_vars

-----------------------------------------------------------------------------
\* the header of the value column as it was uploaded
UploadedLabel == ValueColumn(Header)

\* C11 as stated: after a successful parse the data column is labelled
\* `value` whatever its header was, and the CSV rendering has the header
\* row `timestamp,value`.
C11_Original ==
    pc = "returned" =>
        /\ out.dataframe.columns = <<"value">>
        /\ DataframeToCsv(out.dataframe).header = <<"timestamp", "value">>

\* C11 amended: after a successful parse the frame has one data column.  A
\* header that is `value` in any letter case (`value`, `Value`, `VALUE`) is
\* kept as it was written; every other header (` value`, `load`) is
\* replaced by `value`.  The CSV rendering has the header row `timestamp`
\* followed by that label.
C11_CanonicalLabel ==
    pc = "returned" =>
        LET label == out.dataframe.columns[1]
        IN  /\ Len(out.dataframe.columns) = 1
            /\ UploadedLabel \in {"value", "Value", "VALUE"} => label = UploadedLabel
            /\ UploadedLabel \notin {"value", "Value", "VALUE"} => label = "value"
            /\ DataframeToCsv(out.dataframe).header = <<"timestamp", label>>

\* a series uploaded under the header `load` was returned with the label
\* `value`
C11_Witness ==
    /\ pc = "returned"
    /\ UploadedLabel = "load"
    /\ out.dataframe.columns = <<"value">>

-----------------------------------------------------------------------------
\* the instant a timestamp cell stands for when it is read on its own: the
\* absolute instant when its text carries an offset, its wall-clock value
\* in the declared zone when it does not
PerElementInstant(cell, tz) ==
    IF cell.kind = "aware" THEN cell.w - cell.off ELSE cell.w - UtcOffset(tz)

\* the call reached the timestamp column, which is not empty, and every
\* cell of it is a timestamp, with or without an offset
TimestampsResolved ==
    /\ ColumnsChecked
    /\ ValidSchema
    /\ Len(Rows) > 0
    /\ \A i \in 1..Len(Rows) : Rows[i].ts.kind \in {"naive", "aware"}

\* every cell has the textual form of the first one
UniformForms == \A i \in 1..Len(Rows) : Rows[i].ts.kind = Rows[1].ts.kind

\* C12 as stated: each timestamp is resolved on its own, whatever the first
\* row looks like: one with an offset is converted into the declared zone,
\* one without is tagged with the declared zone, and the index is
\* timezone-aware in the declared zone.
C12_Original ==
    TimestampsResolved =>
        /\ df # None
        /\ df.index.dtype = "datetime"
        /\ df.index.tz = raw.timezone
        /\ \A i \in 1..Len(Rows) :
              df.index.values[i] = PerElementInstant(Rows[i].ts, raw.timezone)

\* C12 amended: the branch is chosen once, from the first timestamp.  When
\* every timestamp has an offset (or Z suffix) each is read as an absolute
\* instant and converted into the declared zone; when none has an offset
\* each is tagged as wall-clock time in the declared zone; in both cases
\* the index is timezone-aware in the declared zone.  A column in which
\* some timestamps have an offset and some have none is rejected with a
\* timestamp parse error and no frame is built.
C12_FirstElementDecides ==
    TimestampsResolved =>
        IF UniformForms
        THEN /\ df # None
             /\ df.index.dtype = "datetime"
             /\ df.index.tz = raw.timezone
             /\ \A i \in 1..Len(Rows) :
                   df.index.values[i] = PerElementInstant(Rows[i].ts, raw.timezone)
        ELSE /\ pc = "raised"
             /\ df = None
             /\ Kinds(errors) = <<"TimestampParseError">>

\* three timestamps written with the offset +01:00 were returned in the
\* zone UTC, one hour earlier on the clock
C12_Witness ==
    /\ pc = "returned"
    /\ raw.timezone = "UTC"
    /\ \A i \in 1..Len(Rows) : Rows[i].ts = AwareCell(i, 1)
    /\ out.dataframe.index = DatetimeIndex("UTC", <<0, 1, 2>>)

-----------------------------------------------------------------------------
\* the name is empty or consists of whitespace only
Blank(name) == name \in {"", " "}

\* the call TimeSeriesData(...) is over
Assembled == pc \in {"built", "invalid"}

\* C13: TimeSeriesData(...) rejects an empty or whitespace-only name with
\* the error 'Name must be a non-empty string' and builds no instance; any
\* other name, also one with leading whitespace, never gets this error; an
\* instance that was built carries the name it was given, which is not
\* blank.
C13_NameValidated ==
    Assembled =>
        /\ Blank(args.name) =>
              /\ pc = "invalid"
              /\ ts = None
              /\ HasErr(errors, "NameEmpty")
        /\ ~Blank(args.name) => ~HasErr(errors, "NameEmpty")
        /\ pc = "built" =>
              /\ ts.name = args.name
              /\ ts.name \in {" a", "abc_series"}

\* a valid frame and granularity under the name " " were rejected with the
\* name error alone
C13_Witness ==
    /\ pc = "invalid"
    /\ args.name = " "
    /\ Kinds(errors) = <<"NameEmpty">>

-----------------------------------------------------------------------------
\* C14: every TimeSeriesData instance satisfies all invariants of a
\* validated series: at least 3 points, an index equal to the full regular
\* grid, all values > 0, a timezone of the allow-list, a supported
\* granularity and a non-blank name.
C14_ConstructionIsValidation ==
    pc = "built" =>
        /\ ts.dataframe.index.dtype = "datetime"
        /\ ts.dataframe.index.tz \in {"UTC", "Europe/Paris"}
        /\ Len(ts.dataframe.index.values) >= 3
        /\ RegularGrid(ts.dataframe.index.values)
        /\ AllPositive(ts.dataframe.data)
        /\ ts.granularity \in {"hourly", "daily", "monthly"}
        /\ ~Blank(ts.name)

-----------------------------------------------------------------------------
-----------------------------------------------------------------------------
(* Vocabulary of the properties of the routes                              *)

Responded(h) == handlers[h].pc = "responded"
Failed(h) == handlers[h].pc = "failed"

\* the prefix of the file of a request: its name, or `y` for the
\* anonymous variant
Prefix(req) == IF req.variant = "named" THEN req.name ELSE "y"

StartupPathOf(prefix, granularity) ==
    [data_dir |-> "data", raw_dir |-> "raw", file |-> <<prefix, "_", granularity, ".csv">>]

-----------------------------------------------------------------------------
\* C16: for every successful ingestion the file_path of the response is the
\* path to_csv wrote to, and it is <data_dir>/<raw_dir>/<name>_<granularity>.csv
\* for the named variant and <data_dir>/<raw_dir>/y_<granularity>.csv for
\* the anonymous one, <data_dir> being the DATA_DIR of the environment when
\* the request is handled.
C16_StoragePath ==
    \A h \in Handlers :
        Responded(h) =>
            LET r == handlers[h]
            IN  /\ r.resp.file_path = r.wrote
                /\ r.wrote = [data_dir |-> r.at.DATA_DIR, raw_dir |-> "raw",
                              file |-> <<Prefix(r.req), "_", r.req.granularity, ".csv">>]

\* a named and an anonymous request were answered with the paths
\* data/raw/b_daily.csv and data/raw/y_daily.csv
C16_Witness ==
    /\ Responded(1)
    /\ Responded(2)
    /\ handlers[1].req.variant = "named"
    /\ handlers[1].resp.file_path = StartupPathOf("b", "daily")
    /\ handlers[2].req.variant = "anonymous"
    /\ handlers[2].resp.file_path = StartupPathOf("y", "daily")

-----------------------------------------------------------------------------
\* C17: a successful POST to /ingest/timeseries-csv returns message,
\* data_points, csv, file_path and file_written; data_points is the number
\* of data rows of the uploaded CSV, the csv returned has that number of
\* rows, file_written is true and a file exists at file_path.
C17_UploadResponse ==
    \A h \in Handlers :
        (Responded(h) /\ handlers[h].req.variant = "named") =>
            LET r == handlers[h]
            IN  /\ DOMAIN r.resp = {"message", "data_points", "csv", "file_path", "file_written"}
                /\ r.resp.data_points = Len(r.req.csv_text.rows)
                /\ Len(r.resp.csv.rows) = Len(r.req.csv_text.rows)
                /\ r.resp.file_written = TRUE
                /\ fs[r.resp.file_path] # None

\* an upload of four rows under the name `b` was answered with
\* data_points = 4 and its file holds the CSV returned
C17_Witness ==
    /\ Responded(1)
    /\ handlers[1].req.variant = "named"
    /\ handlers[1].req.name = "b"
    /\ handlers[1].resp.data_points = 4
    /\ handlers[1].resp.file_written
    /\ fs[handlers[1].resp.file_path] = File(handlers[1].resp.csv, 1)

-----------------------------------------------------------------------------
\* C18: a handler that fails (timezone, unreadable text, schema, timestamp
\* parse, granularity, continuity, value domain or name) leaves every file
\* as it was, creates none, and returns no response.
C18_FailureLeavesStorage ==
    [][\A h \in Handlers :
          (handlers[h].pc = "received" /\ handlers'[h].pc = "failed") =>
              /\ fs' = fs
              /\ handlers'[h].resp = None
              /\ handlers'[h].wrote = None]_vars

\* a request with a blank name failed while data/raw/a_hourly.csv, which
\* was there before, still holds its old content
C18_Witness ==
    /\ Failed(1)
    /\ Kinds(handlers[1].errors) = <<"NameEmpty">>
    /\ handlers[1].resp = None
    /\ fs[StartupPathOf("a", "hourly")] = OldFile

-----------------------------------------------------------------------------
\* the handler is over
Handled(h) == Responded(h) \/ Failed(h)

\* C19 as stated: the settings are one snapshot loaded once; a change of
\* the environment after start-up changes neither the allow-list that
\* validates a request nor the directory it is written to.
C19_Original ==
    \A h \in Handlers :
        /\ Handled(h) =>
              (HasErr(handlers[h].errors, "TimezoneNotAllowed")
                  <=> handlers[h].req.timezone \notin StartupEnv.ALLOWED_TIMEZONES)
        /\ Responded(h) =>
              /\ handlers[h].wrote.data_dir = StartupEnv.DATA_DIR
              /\ handlers[h].resp.file_path.data_dir = StartupEnv.DATA_DIR

\* C19 amended: the allow-list and the granularity map that validate a
\* request are the values loaded when the modules are imported, whatever
\* the environment is when the request is handled.  The storage directory
\* is not part of that snapshot: to_csv and the route read the settings
\* again on every request, so a file is written to, and reported under,
\* the DATA_DIR of the environment at the time the request is handled.
C19_SnapshotAndPerCallSettings ==
    \A h \in Handlers :
        /\ Handled(h) =>
              /\ (HasErr(handlers[h].errors, "TimezoneNotAllowed")
                    <=> handlers[h].req.timezone \notin {"UTC", "Europe/Paris"})
              /\ (HasErr(handlers[h].errors, "GranularityNotSupported")
                    => handlers[h].req.granularity \notin {"hourly", "daily", "monthly"})
        /\ Responded(h) =>
              /\ handlers[h].wrote.data_dir = handlers[h].at.DATA_DIR
              /\ handlers[h].resp.file_path.data_dir = handlers[h].at.DATA_DIR

\* after DATA_DIR was set to data_test a request was written under
\* data_test, and a request for Asia/Tokyo was rejected although the
\* environment then listed Asia/Tokyo
C19_Witness ==
    /\ Responded(1)
    /\ handlers[1].at.DATA_DIR = "data_test"
    /\ handlers[1].wrote.data_dir = "data_test"
    /\ fs[handlers[1].wrote] # None
    /\ Failed(2)
    /\ "Asia/Tokyo" \in handlers[2].at.ALLOWED_TIMEZONES
    /\ Kinds(handlers[2].errors) = <<"TimezoneNotAllowed">>

-----------------------------------------------------------------------------
\* the handler that ran to its end last
Last == CHOOSE h \in Handlers : handlers[h].turn = Cardinality(Handlers)

\* C20: when two ingestions have succeeded, in whatever order they were
\* received and handled: with different (prefix, granularity) keys they
\* wrote to different paths and each file holds the CSV of its own
\* request; with the same path, both wrote to it, nothing kept the second
\* write from replacing the first, and the file holds the CSV of the
\* request that was handled last.
C20_LastWriterWins ==
    (\A h \in Handlers : Responded(h)) =>
        LET r1 == handlers[1]
            r2 == handlers[2]
        IN  /\ <<Prefix(r1.req), r1.req.granularity>> # <<Prefix(r2.req), r2.req.granularity>>
                  => r1.wrote # r2.wrote
            /\ r1.wrote # r2.wrote =>
                  /\ fs[r1.wrote] = File(r1.resp.csv, 1)
                  /\ fs[r2.wrote] = File(r2.resp.csv, 2)
            /\ r1.wrote = r2.wrote =>
                  fs[r1.wrote] = File(handlers[Last].resp.csv, Last)

\* two requests with the same key and different texts succeeded, and the
\* file holds the text of the first handler, which was handled last
C20_Witness ==
    /\ \A h \in Handlers : Responded(h)
    /\ handlers[1].wrote = handlers[2].wrote
    /\ handlers[1].resp.csv # handlers[2].resp.csv
    /\ handlers[1].turn = 2
    /\ fs[handlers[1].wrote].text = handlers[1].resp.csv

-----------------------------------------------------------------------------
\* the index that reached frequency inference holds one instant twice
DuplicatedInstant ==
    /\ HasDatetimeIndex
    /\ "infer_freq" \in Range(ran)
    /\ \E i, j \in 1..Len(df.index.values) :
          i # j /\ df.index.values[i] = df.index.values[j]

\* the statement as written: a duplicated timestamp passes frequency
\* inference and is rejected by the comparison with the expected grid
C21_Original ==
    DuplicatedInstant =>
        /\ "date_range" \in Range(ran)
        /\ HasErr(errors, "MissingDates")
        /\ ~HasErr(errors, "FreqNotInferred")

\* C21: a series with a duplicated timestamp that reaches frequency
\* inference fails it: it is rejected with "frequency could not be
\* inferred", the expected grid is never built, and the "could be inferred,
\* but missing dates" failure is not raised.
C21_DuplicateFailsInference ==
    DuplicatedInstant =>
        /\ pc = "raised"
        /\ HasErr(errors, "FreqNotInferred")
        /\ ~HasErr(errors, "MissingDates")
        /\ "date_range" \notin Range(ran)

\* an accepted series of three points with one timestamp repeated in a
\* fourth row was rejected by frequency inference
C21_Witness ==
    /\ DuplicatedInstant
    /\ Len(Rows) = 4
    /\ \E k \in 1..Len(Rows) : DuplicateOf(k)
    /\ Kinds(errors) = <<"FreqNotInferred">>

-----------------------------------------------------------------------------
(* Storage of the domain entity: to_csv and from_csv                       *)

\* config.py lines 12-14
SUPPORTED_FILE_EXTENSIONS == {".csv"}

StoreNames == EntityNames \cup {NulName}

\* files that are in the raw directory without to_csv having written them,
\* and a path no file is at
StoredPath(file) == [data_dir |-> "data", raw_dir |-> "raw", file |-> file]
NotesTxt == StoredPath(<<"notes", ".txt">>)
SeriesCsv == StoredPath(<<"series", ".csv">>)
ExportCsv == StoredPath(<<"export", "_", "Hourly", ".CSV">>)
MissingCsv == StoredPath(<<"missing", "_", "hourly", ".csv">>)
ForeignPaths == {NotesTxt, SeriesCsv, ExportCsv}

StorePaths ==
    {FilePath(GetSettings(e), n, g) :
        e \in Envs, n \in StoreNames, g \in DOMAIN GRANULARITY_FREQ_MAP}
    \cup ForeignPaths \cup {MissingCsv}

\* the frames handed to TimeSeriesData: those whose index starts at hour 0
StoreFrames == {f \in EntityFrames : f.index.values[1] = 0}

\* file_path.suffix: the extension of the file name
Suffix(path) == path.file[Len(path.file)]

\* the pieces of a name of the model between its underscores
Tokens(s) ==
    CASE s = "abc_series" -> <<"abc", "_", "series">>
      [] OTHER -> <<s>>

RECURSIVE NameTokens(_)
\* file_path.name, cut at its underscores and before its extension
NameTokens(file) ==
    IF file = <<>> THEN <<>>
    ELSE Tokens(Head(file)) \o NameTokens(Tail(file))

\* timeseries.py lines 84-87: re.search(r"_([^_]+)\.csv$", name,
\* re.IGNORECASE), then group(1).lower(): the text between the last
\* underscore and the extension .csv
GranularityOfFileName(path) ==
    LET t == NameTokens(path.file)
        n == Len(t)
    IN  IF /\ n >= 3
           /\ Lower(t[n]) = ".csv"
           /\ t[n - 1] \notin {"_", ""}
           /\ t[n - 2] = "_"
        THEN [matched |-> TRUE, group |-> Lower(t[n - 1])]
        ELSE [matched |-> FALSE, group |-> ""]

\* str(df.index.tz) of an index parsed from text with the offset `off`: UTC
\* for +00:00, a fixed offset otherwise
OffsetZone(off) ==
    CASE off = 0 -> "UTC"
      [] off = 1 -> "UTC+01:00"
      [] OTHER -> "UTC+09:00"

\* timeseries.py line 90: pd.read_csv(file_path, index_col="timestamp",
\* parse_dates=True) on a text whose timestamps all carry the same offset
ReadStored(csv) ==
    LET ts_ == TsCol(csv.rows)
        off == IF Len(ts_) = 0 THEN 0 ELSE ts_[1].off
    IN  Frame(DatetimeIndex(OffsetZone(off), [i \in 1..Len(ts_) |-> ts_[i].w - ts_[i].off]),
              ValueColumn(csv.header),
              ValCol(csv.rows))

\* timeseries.py lines 92-95: cls(dataframe=df, granularity=granularity_str);
\* the field `name` (line 22) has no default and is not given, so the
\* validators of the two other fields run and the missing field is
\* reported with their failures
NewTimeSeriesDataUnnamed(frame, granularity) ==
    LET m == CollectErrors(ValidateDataframeSchemaContent(frame),
                           EntityValidateGranularity(granularity),
                           Validation(<<Err("NameMissing", {})>>, <<>>))
    IN  [ok |-> FALSE, value |-> None, errors |-> m.errors, ran |-> m.ran]

Raised(kind) == [ok |-> FALSE, value |-> None, errors |-> <<Err(kind, {})>>, ran |-> <<>>]

\* timeseries.py lines 70-95
FromCsv(files, path) ==
    IF files[path] = None THEN Raised("FileNotFoundError")
    ELSE IF Lower(Suffix(path)) \notin SUPPORTED_FILE_EXTENSIONS
    THEN Raised("ExtensionNotSupported")
    ELSE IF ~GranularityOfFileName(path).matched
    THEN Raised("GranularityNotExtracted")
    ELSE NewTimeSeriesDataUnnamed(ReadStored(files[path].text),
                                  GranularityOfFileName(path).group)

\* a caller hands a frame, a granularity and a name to TimeSeriesData; the
\* raw directory holds three files of other origin
InitStore ==
    /\ args \in [dataframe : StoreFrames, granularity : Granularities, name : StoreNames]
    /\ pc = "new"
    /\ ts = None
    /\ errors = <<>>
    /\ ran = <<>>
    /\ env \in Envs
    /\ fs = [p \in StorePaths |->
                IF p \in ForeignPaths THEN File(DataframeToCsv(ParseCsv(
                        [csv_text |-> CsvA, granularity |-> "hourly",
                         timezone |-> "UTC"]).frame), 0)
                ELSE None]
    /\ raw = None
    /\ df = None
    /\ out = None
    /\ again = None
    /\ handlers = None

\* timeseries_data.to_csv() on the instance that was built
StoreCsv ==
    /\ pc = "built"
    /\ LET w == ToCsv(ts, fs, env, 1)
       IN  /\ pc' = IF w.ok THEN "stored" ELSE "store_failed"
           /\ out' = [text |-> w.text, path |-> w.path]
           /\ errors' = w.errors
           /\ fs' = w.fs
    /\ UNCHANGED <<raw, df, ran, again, args, ts, handlers, env>>

\* TimeSeriesData.from_csv(path) on the file just written, on a file of
\* other origin or on a path no file is at
LoadCsv(path) ==
    /\ pc = "stored"
    /\ path \in {out.path, MissingCsv} \cup ForeignPaths
    /\ LET r == FromCsv(fs, path)
       IN  /\ pc' = IF r.ok THEN "loaded" ELSE "load_failed"
           /\ again' = [path |-> path, result |-> r]
           /\ errors' = r.errors
    /\ UNCHANGED <<raw, df, ran, out, args, ts, handlers, fs, env>>

NextStore ==
    \/ BuildTimeSeriesData
    \/ StoreCsv
    \/ \E p \in StorePaths : LoadCsv(p)

SpecStore == InitStore /\ [][NextStore]_vars

-----------------------------------------------------------------------------
\* to_csv was called on an instance and is over
Serialized == pc \in {"stored", "store_failed"}

\* C22: to_csv is total and validates nothing: for every TimeSeriesData
\* that was built, whatever its name and its granularity, to_csv does not
\* fail, writes the text and returns it with one row for every element of
\* the index, in the order of the index.
C22_SerializerIsTotal ==
    Serialized =>
        /\ pc = "stored"
        /\ errors = <<>>
        /\ fs[out.path] = File(out.text, 1)
        /\ Len(out.text.rows) = Len(ts.dataframe.index.values)
        /\ \A i \in 1..Len(out.text.rows) :
              /\ out.text.rows[i].ts.w - out.text.rows[i].ts.off
                    = ts.dataframe.index.values[i]
              /\ out.text.rows[i].val = ts.dataframe.data[i]

-----------------------------------------------------------------------------
\* from_csv was called and is over
Loaded == pc \in {"loaded", "load_failed"}

\* C23: from_csv loads what to_csv stored: called on the path to_csv wrote
\* an instance to, it returns an instance with the granularity, the index
\* and the values of the one written; on a path no file is at it fails
\* with FileNotFoundError, and on a file whose extension is not supported
\* with the ValueError of the extension check.
C23_LoadsWhatWasStored ==
    Loaded =>
        /\ again.path = out.path =>
              /\ pc = "loaded"
              /\ again.result.value.granularity = ts.granularity
              /\ again.result.value.dataframe.index.values
                    = ts.dataframe.index.values
              /\ again.result.value.dataframe.data = ts.dataframe.data
        /\ again.path = MissingCsv => Kinds(errors) = <<"FileNotFoundError">>
        /\ again.path = NotesTxt => Kinds(errors) = <<"ExtensionNotSupported">>

-----------------------------------------------------------------------------
(* OpenMeteoRequest: src/api/data/schemas/openmeteo_api.py                 *)

\* config.py lines 31-42: the weather variables and whether each is fetched
WEATHER_VARIABLES ==
    [v \in {"temperature_2m", "relative_humidity_2m", "precipitation",
            "wind_speed_10m", "wind_direction_10m", "cloud_cover",
            "surface_pressure"} |-> TRUE]

\* environments of the process: the defaults, and WEATHER_VARIABLES set
\* with precipitation switched off
WeatherEnvs ==
    { [WEATHER_VARIABLES |-> WEATHER_VARIABLES],
      [WEATHER_VARIABLES |-> [WEATHER_VARIABLES EXCEPT !["precipitation"] = FALSE]] }

\* config.py lines 51-54: weather_variables_options of get_settings()
WeatherVariablesOptions(e) ==
    {v \in DOMAIN e.WEATHER_VARIABLES : e.WEATHER_VARIABLES[v]}

\* the value given for `hourly`: a str or a set of str
HourlyStr(s) == [kind |-> "str", v |-> s]
HourlySet(S) == [kind |-> "set", v |-> S]

HourlyNames == DOMAIN WEATHER_VARIABLES \cup {"snow_depth"}
HourlyInputs ==
    {HourlyStr(s) : s \in {"", "t", "temperature_2m", "precipitation", "snow_depth"}}
    \cup {HourlySet(S) : S \in SUBSET HourlyNames}

\* set(v) of a str: the set of its characters
Chars(s) ==
    CASE s = "" -> {}
      [] s = "t" -> {"t"}
      [] s = "temperature_2m" -> {"t", "e", "m", "p", "r", "a", "u", "_", "2"}
      [] s = "precipitation" -> {"p", "r", "e", "c", "i", "t", "a", "o", "n"}
      [] s = "snow_depth" -> {"s", "n", "o", "w", "_", "d", "e", "p", "t", "h"}

\* openmeteo_api.py line 27: set(v) if isinstance(v, str) else v
ParamsList(hourly) == IF hourly.kind = "str" THEN Chars(hourly.v) ELSE hourly.v

\* openmeteo_api.py lines 24-34
ValidateHourlyParams(hourly, e) ==
    IF \E param \in ParamsList(hourly) : param \notin WeatherVariablesOptions(e)
    THEN Validation(<<Err("HourlyNotSupported", {})>>, <<"validate_hourly_params">>)
    ELSE Validation(<<>>, <<"validate_hourly_params">>)

\* openmeteo_api.py lines 14-15: latitude in [-90, 90], longitude in
\* [-180, 180]
ValidateCoordinates(latitude, longitude) ==
    Validation((IF latitude < 0 - 90 \/ latitude > 90
                THEN <<Err("LatitudeOutOfRange", {})>> ELSE <<>>)
               \o (IF longitude < 0 - 180 \/ longitude > 180
                   THEN <<Err("LongitudeOutOfRange", {})>> ELSE <<>>),
               <<>>)

\* openmeteo_api.py lines 36-42: runs once every field is valid
CheckDates(start_date, end_date) ==
    IF end_date < start_date
    THEN Validation(<<Err("EndBeforeStart", {})>>, <<"check_dates">>)
    ELSE Validation(<<>>, <<"check_dates">>)

\* OpenMeteoRequest(**payload): the instance, or the errors of the
\* ValidationError
NewOpenMeteoRequest(r, e) ==
    LET c == ValidateCoordinates(r.latitude, r.longitude)
        h == ValidateHourlyParams(r.hourly, e)
        f == c.errors \o h.errors
        d == CheckDates(r.start_date, r.end_date)
        errs == IF f # <<>> THEN f ELSE d.errors
    IN  [ok |-> errs = <<>>,
         value |-> IF errs = <<>>
                   THEN [r EXCEPT !.hourly = ParamsList(r.hourly)]
                   ELSE None,
         errors |-> errs,
         ran |-> IF f # <<>> THEN h.ran ELSE h.ran \o d.ran]

\* the payloads of the model: days are counted from 2024-01-01
Payloads ==
    [latitude : {0 - 91, 5}, longitude : {0 - 4, 181}, start_date : {1, 2},
     end_date : {1, 2}, timezone : {"UTC"}, hourly : HourlyInputs]

InitWeather ==
    /\ args \in Payloads
    /\ env \in WeatherEnvs
    /\ pc = "request"
    /\ out = None
    /\ errors = <<>>
    /\ ran = <<>>
    /\ ts = None
    /\ raw = None
    /\ df = None
    /\ again = None
    /\ handlers = None
    /\ fs = None

BuildOpenMeteoRequest ==
    /\ pc = "request"
    /\ LET r == NewOpenMeteoRequest(args, env)
       IN  /\ pc' = IF r.ok THEN "accepted" ELSE "rejected"
           /\ out' = r.value
           /\ errors' = r.errors
           /\ ran' = r.ran
    /\ UNCHANGED <<raw, df, again, args, ts, handlers, fs, env>>

NextWeather == BuildOpenMeteoRequest

SpecWeather == InitWeather /\ [][NextWeather]_vars

\* OpenMeteoRequest(...) is over
Answered == pc \in {"accepted", "rejected"}

\* the names the caller asks for: the string itself, or the elements of
\* the set
RequestedNames == IF args.hourly.kind = "str" THEN {args.hourly.v} ELSE args.hourly.v

\* C24: `hourly` is given as one name or as a set of names; with valid
\* coordinates and dates and no empty name, the request is rejected
\* exactly when one of the names asked for is not an enabled weather
\* variable, and an accepted request holds the set of the names asked for:
\* the one-element set for a single string.
C24_HourlyStringOrSet ==
    (/\ Answered
     /\ "" \notin RequestedNames
     /\ ValidateCoordinates(args.latitude, args.longitude).errors = <<>>
     /\ args.end_date >= args.start_date) =>
        /\ pc = "rejected" <=>
              \E n \in RequestedNames : n \notin WeatherVariablesOptions(env)
        /\ pc = "accepted" => out.hourly = RequestedNames

-----------------------------------------------------------------------------
\* handler h of upload_timeseries_csv produces its response in this step,
\* with file_written true
RespondsWritten(h) ==
    /\ handlers[h].pc = "received"
    /\ handlers[h].req.variant = "named"
    /\ handlers'[h].pc = "responded"
    /\ handlers'[h].resp.file_written

\* C25: under every interleaving of the requests, at the moment
\* upload_timeseries_csv produces a response with file_written true, the
\* file at the file_path of the response was written by that request and
\* holds the csv text of the response.
C25_ReportedFileIsOwn ==
    [][\A h \in Handlers :
          RespondsWritten(h) =>
              fs'[handlers'[h].resp.file_path] = File(handlers'[h].resp.csv, h)]_vars

\* the first handler has answered with file_written true while a request
\* with another text for the same name and granularity is in flight, after
\* the environment was changed, and the file reported holds the text of
\* the response
C25_Witness ==
    /\ handlers # None
    /\ pc = "serving"
    /\ handlers[1].pc = "responded"
    /\ handlers[1].req.variant = "named"
    /\ handlers[1].resp.file_written
    /\ handlers[2].pc = "received"
    /\ handlers[2].req.variant = "named"
    /\ handlers[2].req.name = handlers[1].req.name
    /\ handlers[2].req.granularity = handlers[1].req.granularity
    /\ handlers[2].req.csv_text # handlers[1].req.csv_text
    /\ handlers[1].at # StartupEnv
    /\ fs[handlers[1].resp.file_path] = File(handlers[1].resp.csv, 1)

====
